---------------------------- MODULE Spec2Model ----------------------------
(***************************************************************************)
(* A model of the vendor dashboard API: the persistent response cache      *)
(* (cache.py), the three upstream clients (av_client._fetch, av_get of     *)
(* main.py, av_get of vendor-dashboard/main.py) and the request handlers   *)
(* built on them (api_compare, api_prime, vendors).                        *)
(*                                                                         *)
(* Time is counted in ticks, TicksPerSec ticks to a second, so that        *)
(* time.time() (a float) and int(time.time()) (whole seconds) differ.      *)
(***************************************************************************)
EXTENDS Integers, Sequences, FiniteSets, TLC

VARIABLES
    now,      \* the clock, in ticks: time.time() = now / TicksPerSec
    up,       \* whether the server process is running
    cols,     \* the column names of the persisted table "cache" ({} = no table)
    rows,     \* the rows of the persisted table "cache": [k, v, ts]
    lastSet,  \* history: per key, what the most recent cache_set wrote
    impl,     \* which of the three programs is deployed
    last,     \* the last completed operation with its arguments and outcome
    req,      \* the request handler in progress (its position and locals)
    API_KEY   \* the credential read from the environment, None when unset

vars == <<now, up, cols, rows, lastSet, impl, last, req, API_KEY>>

-----------------------------------------------------------------------------
(* Bounds *)

TicksPerSec == 2
MaxSeconds == 3
TtlSeconds == 1
MaxSymbols == 2

-----------------------------------------------------------------------------
(* Python values: Optional[x] is <<>> (None) or <<x>> *)

None == <<>>
Some(x) == <<x>>
IsNone(o) == o = <<>>
Get(o) == o[1]

(* the clock stops at MaxTime ticks; int(time.time()) is in whole seconds *)
MaxTime == MaxSeconds * TicksPerSec
IntTime(t) == t \div TicksPerSec

-----------------------------------------------------------------------------
(* JSON documents returned by the provider.  A dict is a function from     *)
(* keys to values; a non-dict document (a list) is tagged.                 *)

Dict(d) == [t |-> "dict", d |-> d]
List(n) == [t |-> "list", len |-> n]
IsDict(j) == j.t = "dict"
HasKey(j, key) == IsDict(j) /\ key \in DOMAIN j.d

(* bool(x) of a JSON document: an empty dict or list is falsy *)
Truthy(j) == IF IsDict(j) THEN DOMAIN j.d # {} ELSE j.len > 0

(* dict.get(key) as an Optional *)
DictGet(j, key) == IF key \in DOMAIN j.d THEN Some(j.d[key]) ELSE None

(* bool(s) of a str *)
StrTruthy(s) == s # ""

(* json.dumps / json.loads: the stored text of a document *)
json_dumps(j) == [text |-> j]
json_loads(s) == s.text


-----------------------------------------------------------------------------
(* The provider's messages, and the test `word in msg.lower()` on them *)

MsgInvalid == "Invalid API call. Please retry or visit the documentation."
MsgFrequency == "Thank you for using Alpha Vantage! Our standard API call frequency is 5 calls per minute and 500 calls per day."
MsgLimit == "Our standard API rate limit is 25 requests per day."
MsgQuota == "You have exhausted your daily quota."
MsgDemo == "The demo API key is for demo purposes only."

LowerWords(msg) ==
    CASE msg = MsgFrequency -> {"frequency"}
      [] msg = MsgLimit -> {"limit"}
      [] msg = MsgQuota -> {"quota"}
      [] OTHER -> {}

InLower(word, msg) == word \in LowerWords(msg)

(* The provider's documents *)

AnnualReport(fy, rev, ni) ==
    [fiscalDateEnding |-> fy, totalRevenue |-> rev, netIncome |-> ni]
QuarterlyReport(fy, rev) == [fiscalDateEnding |-> fy, totalRevenue |-> rev]

BodyOverview ==
    Dict([Name |-> "TE Connectivity plc", Sector |-> "TECHNOLOGY",
          Industry |-> "ELECTRONIC CONNECTORS", MarketCapitalization |-> "4000",
          EBITDA |-> "900", RevenueTTM |-> "6000", GrossProfitTTM |-> "2000"])
BodyIncome ==
    Dict([symbol |-> "TEL",
          annualReports |-> << AnnualReport("2024-09-30", "3000", "700"),
                               AnnualReport("2023-09-30", "2500", "None") >>,
          quarterlyReports |-> << QuarterlyReport("2024-09-30", "800"),
                                  QuarterlyReport("2024-06-30", "700"),
                                  QuarterlyReport("2024-03-31", "700"),
                                  QuarterlyReport("2023-12-31", "800") >>])
BodyEmpty == Dict(<<>>)
BodyList == List(1)
BodyErrorMessage == Dict("Error Message" :> MsgInvalid)
BodyNoteFrequency == Dict("Note" :> MsgFrequency)
BodyInformationLimit == Dict("Information" :> MsgLimit)
BodyNoteEmpty == Dict("Note" :> "")
BodyInformationDemo == Dict("Information" :> MsgDemo)

SoftErrorKeys == {"Error Message", "Information", "Note"}

(* A soft-error response: a JSON object with one of the soft-error keys *)
IsSoftError(j) == \E key \in SoftErrorKeys : HasKey(j, key)

-----------------------------------------------------------------------------
(* cache.py *)

EXPECTED_COLS == {"k", "v", "ts"}

(* PRAGMA table_info(cache): the column names, empty when there is no table *)
_current_cols(c) == c

(* DROP TABLE IF EXISTS cache; CREATE TABLE cache (k PRIMARY KEY, v, ts) *)
_recreate_cache_table == [cols |-> {"k", "v", "ts"}, rows |-> {}]

(* mutant: CREATE TABLE IF NOT EXISTS only, an existing table is kept *)
_ensure_if_not_exists(c, rs) ==
    IF _current_cols(c) = {}
    THEN _recreate_cache_table
    ELSE [cols |-> c, rows |-> rs]

(* _ensure(): the table after the startup schema guard *)
_ensure(c, rs) ==
    IF _current_cols(c) # EXPECTED_COLS
    THEN _recreate_cache_table
    ELSE [cols |-> c, rows |-> rs]

(* SELECT v, ts FROM cache WHERE k=? *)
SelectRows(rs, key) == {r \in rs : r.k = key}

(* mutant: the boundary counted as stale (>= for >) *)
IsStale_inclusive(row, ttl, t) == t - row.ts * TicksPerSec >= ttl * TicksPerSec

(* time.time() - ts > ttl_seconds, at clock t (ticks) *)
IsStale(row, ttl, t) == t - row.ts * TicksPerSec > ttl * TicksPerSec

(* cache_get(key, ttl_seconds): the value returned *)
cache_get(rs, key, ttl, t) ==
    LET m == SelectRows(rs, key) IN
    IF m = {} THEN None
    ELSE LET row == CHOOSE r \in m : TRUE IN
         IF IsStale(row, ttl, t) THEN None ELSE Some(json_loads(row.v))

(* mutant: a stale row is ignored, not deleted *)
cache_get_rows_keep(rs, key, ttl, t) == rs

(* cache_get(key, ttl_seconds): the table it leaves (DELETE of a stale row) *)
cache_get_rows(rs, key, ttl, t) ==
    LET m == SelectRows(rs, key) IN
    IF m = {} THEN rs
    ELSE LET row == CHOOSE r \in m : TRUE IN
         IF IsStale(row, ttl, t) THEN {r \in rs : r.k # key} ELSE rs

(* mutant: INSERT OR IGNORE, an existing row of the key is kept *)
cache_set_or_ignore(rs, key, value, t) ==
    IF SelectRows(rs, key) # {} THEN rs
    ELSE rs \cup {[k |-> key, v |-> json_dumps(value), ts |-> IntTime(t)]}

(* mutant: a plain INSERT into a table without the primary key *)
cache_set_insert(rs, key, value, t) ==
    rs \cup {[k |-> key, v |-> json_dumps(value), ts |-> IntTime(t)]}

(* cache_set(key, value): INSERT OR REPLACE INTO cache (k, v, ts) *)
cache_set(rs, key, value, t) ==
    {r \in rs : r.k # key}
        \cup {[k |-> key, v |-> json_dumps(value), ts |-> IntTime(t)]}


-----------------------------------------------------------------------------
(* The history of cache_set calls: per key the document last written, the  *)
(* clock (ticks) of that call, whether a cache_get since then was made     *)
(* when the entry's age exceeded that call's TTL, and whether the          *)
(* persisted layout was changed since then                                 *)

RecordSet(h, key, value, t) ==
    {x \in h : x.k # key}
        \cup {[k |-> key, value |-> value, at |-> t,
               stale |-> FALSE, lost |-> FALSE]}

(* the same for a cache_set of _fetch, with the clock at which the         *)
(* response written had been received                                     *)
RecordReceived(h, key, value, recv, t) ==
    {x \in h : x.k # key}
        \cup {[k |-> key, value |-> value, at |-> t, recv |-> recv,
               stale |-> FALSE, lost |-> FALSE]}

MarkStale(h, key, ttl, t) ==
    {IF x.k = key /\ t - (x.at \div TicksPerSec) * TicksPerSec > ttl * TicksPerSec
     THEN [x EXCEPT !.stale = TRUE] ELSE x : x \in h}

MarkLost(h) == {[x EXCEPT !.lost = TRUE] : x \in h}

Idle == [kind |-> "idle"]

-----------------------------------------------------------------------------
(* The cache used directly: cache_set, cache_get with a caller-chosen TTL, *)
(* and the restart of the process over the persisted table                 *)

CacheKeys == {<<"k1">>, <<"k2">>}
CacheValues == {BodyOverview, BodyEmpty}
GetTtls == {TtlSeconds, TtlSeconds + 1}

(* Other layouts the persisted file may have at startup: no table, the     *)
(* table main.py creates in the same cache.db, a table with a fourth column *)
DriftCols ==
    {{}, {"cache_key", "payload", "ts"}, {"k", "v", "ts", "ttl_seconds"}}

Tick ==
    /\ now < MaxTime
    /\ now' = now + 1
    /\ last' = [op |-> "tick"]
    /\ UNCHANGED <<API_KEY, up, cols, rows, lastSet, impl, req>>

(* the clock passing the age at which every stored entry is stale *)
Lapse ==
    /\ now + (TtlSeconds + 1) * TicksPerSec <= MaxTime
    /\ now' = now + (TtlSeconds + 1) * TicksPerSec
    /\ last' = [op |-> "tick"]
    /\ UNCHANGED <<API_KEY, up, cols, rows, lastSet, impl, req>>

CacheSet(key, value) ==
    /\ up /\ req = Idle
    /\ rows' = cache_set(rows, key, value, now)
    /\ lastSet' = RecordSet(lastSet, key, value, now)
    /\ last' = [op |-> "cache_set", key |-> key, value |-> value,
                replaced |-> SelectRows(rows, key)]
    /\ UNCHANGED <<API_KEY, now, up, cols, impl, req>>

CacheGet(key, ttl) ==
    /\ up /\ req = Idle
    /\ rows' = cache_get_rows(rows, key, ttl, now)
    /\ last' = [op |-> "cache_get", key |-> key, ttl |-> ttl,
                ret |-> cache_get(rows, key, ttl, now)]
    /\ lastSet' = MarkStale(lastSet, key, ttl, now)
    /\ UNCHANGED <<API_KEY, now, up, cols, impl, req>>

Stop ==
    /\ up /\ req = Idle
    /\ up' = FALSE
    /\ last' = [op |-> "stop"]
    /\ UNCHANGED <<API_KEY, now, cols, rows, lastSet, impl, req>>

Drift(c) ==
    /\ ~up
    /\ cols = EXPECTED_COLS
    /\ cols' = c
    /\ rows' = IF c = {} THEN {} ELSE rows
    /\ lastSet' = MarkLost(lastSet)
    /\ last' = [op |-> "drift"]
    /\ UNCHANGED <<API_KEY, now, up, impl, req>>

Start ==
    /\ ~up
    /\ cols' = _ensure(cols, rows).cols
    /\ rows' = _ensure(cols, rows).rows
    /\ up' = TRUE
    /\ last' = [op |-> "start"]
    /\ UNCHANGED <<API_KEY, now, lastSet, impl, req>>

CacheInit ==
    /\ now = 0
    /\ API_KEY = Some("demo")
    /\ up = TRUE
    /\ cols = EXPECTED_COLS
    /\ rows = {}
    /\ lastSet = {}
    /\ impl = "av_client"
    /\ last = [op |-> "init"]
    /\ req = Idle

CacheNext ==
    \/ Tick
    \/ \E key \in CacheKeys, value \in CacheValues : CacheSet(key, value)
    \/ \E key \in CacheKeys, ttl \in GetTtls : CacheGet(key, ttl)
    \/ Stop
    \/ \E c \in DriftCols : Drift(c)
    \/ Start

CacheSpec == CacheInit /\ [][CacheNext]_vars


-----------------------------------------------------------------------------
(* The upstream provider: what one HTTP request may produce *)

TransportFailure == [kind |-> "exception"]
Http(status, body) == [kind |-> "http", status |-> status, body |-> body]

Responses ==
    {TransportFailure}
        \cup {Http(200, b) : b \in {BodyOverview, BodyEmpty, BodyList,
                                   BodyErrorMessage, BodyNoteFrequency,
                                   BodyInformationLimit, BodyNoteEmpty,
                                   BodyInformationDemo}}
        \cup {Http(500, BodyOverview)}

(* The outcome of a fetch: the table it leaves, whether it issued an       *)
(* upstream request, and the payload returned or the exception raised      *)
Returned(rs, net, data) == [rows |-> rs, net |-> net, ok |-> TRUE, data |-> data]
Raised(rs, net, exc) == [rows |-> rs, net |-> net, ok |-> FALSE, exc |-> exc]

(* first truthy of data.get(k1) or data.get(k2) or data.get(k3), else "" *)
FirstTruthy(j, keys) ==
    LET hit == {i \in 1..Len(keys) :
                   /\ keys[i] \in DOMAIN j.d
                   /\ StrTruthy(j.d[keys[i]])} IN
    IF hit = {} THEN ""
    ELSE j.d[keys[CHOOSE i \in hit : \A i2 \in hit : i <= i2]]

(* str.upper() on the symbols used *)
Upper(s) ==
    CASE s = "tel" -> "TEL"
      [] s = "st" -> "ST"
      [] OTHER -> s

-----------------------------------------------------------------------------
(* av_client.py *)

(* _ttl(): CACHE_TTL_SECONDS *)
_ttl == TtlSeconds

(* A params dict is the sequence of its <<name, value>> items in insertion *)
(* order.  The names used, in the order sort_keys puts them:               *)
SortedNames == <<"apikey", "function", "symbol">>

(* params[name] *)
ParamValue(params, name) ==
    params[CHOOSE i \in DOMAIN params : params[i][1] = name][2]

RECURSIVE ItemsInOrder(_, _)
ItemsInOrder(params, names) ==
    IF names = <<>> THEN <<>>
    ELSE (IF \E i \in DOMAIN params : params[i][1] = Head(names)
          THEN <<Head(names), ParamValue(params, Head(names))>>
          ELSE <<>>)
             \o ItemsInOrder(params, Tail(names))

(* mutant: json.dumps(params), the items in insertion order *)
dumps_sort_keys_unsorted(params) ==
    ItemsInOrder(params, [i \in DOMAIN params |-> params[i][1]])

(* json.dumps(params, sort_keys=True): the items in the order of the names *)
dumps_sort_keys(params) == ItemsInOrder(params, SortedNames)

(* key = "av:" + json.dumps(params, sort_keys=True) *)
ParamsKey(params) == <<"av:">> \o dumps_sort_keys(params)

(* {"function": f, "symbol": symbol, "apikey": API_KEY} *)
Params(f, s) == <<<<"function", f>>, <<"symbol", s>>, <<"apikey", Get(API_KEY)>>>>

(* the key _fetch builds for get_overview / get_income_statement *)
AvKey(f, s) == ParamsKey(Params(f, s))

(* _maybe_raise_alpha_error: the message it raises with, "" when it returns *)
_maybe_raise_alpha_error(data) ==
    IF IsDict(data)
    THEN FirstTruthy(data, <<"Error Message", "Information", "Note">>)
    ELSE ""

AlphaError(f, s, msg) ==
    [type |-> "RuntimeError", f |-> f, s |-> s, msg |-> msg]
HttpxError == [type |-> "httpx.HTTPError", msg |-> ""]

(* _fetch(params) at clock t, the provider answering resp *)
_fetch(rs, f, s, resp, t) ==
    LET key == AvKey(f, s)
        cached == cache_get(rs, key, _ttl, t)
        rs1 == cache_get_rows(rs, key, _ttl, t)
    IN  IF ~IsNone(cached) /\ Truthy(Get(cached))
        THEN Returned(rs1, FALSE, Get(cached))
        ELSE IF resp.kind = "exception"
        THEN Raised(rs1, TRUE, HttpxError)
        ELSE IF StrTruthy(_maybe_raise_alpha_error(resp.body))
        THEN Raised(rs1, TRUE, AlphaError(f, s, _maybe_raise_alpha_error(resp.body)))
        ELSE Returned(cache_set(rs1, key, resp.body, t), TRUE, resp.body)

-----------------------------------------------------------------------------
(* main.py *)

MainCols == {"cache_key", "payload", "ts"}

(* TTL = int(os.getenv("CACHE_TTL_SECONDS", "86400")) *)
TTL == TtlSeconds

main_cache_get(rs, key, t) ==
    LET m == SelectRows(rs, key) IN
    IF m = {} THEN None
    ELSE LET row == CHOOSE r \in m : TRUE IN
         IF t - row.ts * TicksPerSec > TTL * TicksPerSec
         THEN None
         ELSE Some(json_loads(row.v))

(* REPLACE INTO cache(cache_key, payload, ts) *)
main_cache_set(rs, key, data, t) ==
    {r \in rs : r.k # key}
        \cup {[k |-> key, v |-> json_dumps(data), ts |-> IntTime(t)]}

HTTPException(status, detail) ==
    [type |-> "HTTPException", status |-> status, msg |-> detail]

(* `not API_KEY`: the credential is None or the empty string *)
NotApiKey == IsNone(API_KEY) \/ ~StrTruthy(Get(API_KEY))

MsgMisconfiguration == "Server misconfiguration: ALPHA_VANTAGE_KEY is not set."

(* ensure_api_key(): raises HTTPException(500) when the credential is unset *)
ensure_api_key_raises == NotApiKey

(* f"{function}:{symbol.upper()}" *)
MainKey(f, s) == <<f, ":", Upper(s)>>

(* av_get(function, symbol) of main.py *)
main_av_get(rs, f, s, resp, t) ==
    LET key == MainKey(f, s)
        cached == main_cache_get(rs, key, t)
    IN  IF ~IsNone(cached) /\ Truthy(Get(cached))
        THEN Returned(rs, FALSE, Get(cached))
        ELSE IF ensure_api_key_raises
        THEN Raised(rs, FALSE, HTTPException(500, MsgMisconfiguration))
        ELSE IF resp.kind = "exception"
        THEN Raised(rs, TRUE, HTTPException(502, "Upstream request failed"))
        ELSE IF resp.status # 200
        THEN Raised(rs, TRUE, HTTPException(502, "Alpha Vantage HTTP error"))
        ELSE IF IsDict(resp.body)
                /\ ("Note" \in DOMAIN resp.body.d
                    \/ "Information" \in DOMAIN resp.body.d
                    \/ "Error Message" \in DOMAIN resp.body.d)
        THEN LET got == FirstTruthy(resp.body, <<"Note", "Information", "Error Message">>)
                 msg == IF StrTruthy(got) THEN got ELSE "Alpha Vantage error"
             IN  Raised(rs, TRUE,
                        HTTPException(IF InLower("frequency", msg) \/ InLower("limit", msg)
                                      THEN 429 ELSE 502, msg))
        ELSE Returned(main_cache_set(rs, key, resp.body, t), TRUE, resp.body)

-----------------------------------------------------------------------------
(* vendor-dashboard/main.py *)

vd_cache_get(rs, key, t) ==
    LET m == SelectRows(rs, key) IN
    IF m = {} THEN None
    ELSE LET row == CHOOSE r \in m : TRUE IN
         IF t - row.ts * TicksPerSec > TTL * TicksPerSec
         THEN None
         ELSE Some(json_loads(row.v))

vd_cache_set(rs, key, data, t) ==
    {r \in rs : r.k # key}
        \cup {[k |-> key, v |-> json_dumps(data), ts |-> IntTime(t)]}

(* f"{function}:{symbol}" *)
VdKey(f, s) == <<f, ":", s>>

RequestsError == [type |-> "requests.RequestException", msg |-> ""]

(* "Note" in data or "Information" in data: key membership for a dict,     *)
(* element membership for a list (the lists used hold no such element)     *)
VdHasNote(data) ==
    IsDict(data) /\ ("Note" \in DOMAIN data.d \/ "Information" \in DOMAIN data.d)

(* av_get(function, symbol) of vendor-dashboard/main.py *)
vd_av_get(rs, f, s, resp, t) ==
    LET key == VdKey(f, s)
        cached == vd_cache_get(rs, key, t)
    IN  IF ~IsNone(cached) /\ Truthy(Get(cached))
        THEN Returned(rs, FALSE, Get(cached))
        ELSE IF resp.kind = "exception"
        THEN Raised(rs, TRUE, RequestsError)
        ELSE IF resp.status # 200
        THEN Raised(rs, TRUE, HTTPException(502, "Alpha Vantage error"))
        ELSE IF VdHasNote(resp.body)
        THEN Raised(rs, TRUE,
                    HTTPException(429, FirstTruthy(resp.body, <<"Note", "Information">>)))
        ELSE Returned(vd_cache_set(rs, key, resp.body, t), TRUE, resp.body)

-----------------------------------------------------------------------------
(* One fetch, by whichever program is deployed *)

Impls == {"av_client", "main", "vendor-dashboard"}
Functions == {"OVERVIEW", "INCOME_STATEMENT"}
FetchSymbols == {"TEL"}

KeyOf(i, f, s) ==
    CASE i = "av_client" -> AvKey(f, s)
      [] i = "main" -> MainKey(f, s)
      [] OTHER -> VdKey(f, s)

FetchOf(i, rs, f, s, resp, t) ==
    CASE i = "av_client" -> _fetch(rs, f, s, resp, t)
      [] i = "main" -> main_av_get(rs, f, s, resp, t)
      [] OTHER -> vd_av_get(rs, f, s, resp, t)

ColsOf(i) == IF i = "av_client" THEN EXPECTED_COLS ELSE MainCols

(* the history of cache_set calls after a fetch *)
FetchHistory(h, key, out, t) ==
    IF out.ok /\ out.net THEN RecordSet(h, key, out.data, t) ELSE h

Fetch(f, s, resp) ==
    /\ up /\ req = Idle
    /\ LET out == FetchOf(impl, rows, f, s, resp, now)
           key == KeyOf(impl, f, s)
       IN  /\ rows' = out.rows
           /\ lastSet' = FetchHistory(lastSet, key, out, now)
           /\ last' = [op |-> "fetch", f |-> f, s |-> s, key |-> key, resp |-> resp,
                       out |-> [x \in DOMAIN out \ {"rows"} |-> out[x]]]
    /\ UNCHANGED <<API_KEY, now, up, cols, impl, req>>

FetchInit ==
    /\ now = 0
    /\ API_KEY = Some("demo")
    /\ up = TRUE
    /\ impl \in Impls
    /\ cols = ColsOf(impl)
    /\ rows = {}
    /\ lastSet = {}
    /\ last = [op |-> "init"]
    /\ req = Idle

FetchNext ==
    \/ Tick
    \/ \E f \in Functions, s \in FetchSymbols, resp \in Responses : Fetch(f, s, resp)

FetchSpec == FetchInit /\ [][FetchNext]_vars

-----------------------------------------------------------------------------
(* Concurrent fetches of av_client.py for one function and symbol, by      *)
(* request handlers that share the persisted table (cache.py opens a       *)
(* connection per call and holds no lock or transaction across its         *)
(* statements).  A step is one SQL statement or one upstream response;     *)
(* req maps each handler to its position in _fetch.                        *)

MaxTasks == 2
Tasks == 1..MaxTasks

ConcKey == AvKey("OVERVIEW", "TEL")

(* the key of another request, whose entry no handler here asks for *)
OtherKey == AvKey("INCOME_STATEMENT", "TEL")

ConcResponses ==
    {TransportFailure, Http(200, BodyOverview), Http(200, BodyEmpty),
     Http(200, BodyNoteFrequency), Http(200, BodyNoteEmpty), Http(500, BodyOverview)}

(* the clock at the start: an entry stored at clock 0 is stale *)
StaleClock == TtlSeconds * TicksPerSec + 1

TaskDone(ok, net, resp, data) ==
    [pc |-> "done", ok |-> ok, net |-> net, resp |-> resp, data |-> data]

(* mutant: sliding expiration, a hit stamps the entry with the clock of    *)
(* the read                                                                *)
TaskSelect_touch(i) ==
    /\ up /\ req[i].pc = "select"
    /\ LET m == SelectRows(rows, ConcKey) IN
       IF m = {}
       THEN req' = [req EXCEPT ![i] = [pc |-> "request"]] /\ rows' = rows
       ELSE LET row == CHOOSE r \in m : TRUE IN
            IF IsStale(row, _ttl, now)
            THEN req' = [req EXCEPT ![i] = [pc |-> "delete"]] /\ rows' = rows
            ELSE /\ rows' = (rows \ {row}) \cup {[row EXCEPT !.ts = IntTime(now)]}
                 /\ IF Truthy(json_loads(row.v))
                    THEN req' = [req EXCEPT ![i] =
                             TaskDone(TRUE, FALSE, TransportFailure, json_loads(row.v))]
                    ELSE req' = [req EXCEPT ![i] = [pc |-> "request"]]
    /\ last' = [op |-> "select", task |-> i]
    /\ UNCHANGED <<API_KEY, now, up, cols, lastSet, impl>>

(* cache_get: SELECT v, ts FROM cache WHERE k=?, then the test of the row  *)
(* read; `if cached: return cached` when it is fresh                       *)
TaskSelect(i) ==
    /\ up /\ req[i].pc = "select"
    /\ LET m == SelectRows(rows, ConcKey) IN
       IF m = {}
       THEN req' = [req EXCEPT ![i] = [pc |-> "request"]]
       ELSE LET row == CHOOSE r \in m : TRUE IN
            IF IsStale(row, _ttl, now)
            THEN req' = [req EXCEPT ![i] = [pc |-> "delete"]]
            ELSE IF Truthy(json_loads(row.v))
            THEN req' = [req EXCEPT ![i] =
                            TaskDone(TRUE, FALSE, TransportFailure, json_loads(row.v))]
            ELSE req' = [req EXCEPT ![i] = [pc |-> "request"]]
    /\ last' = [op |-> "select", task |-> i]
    /\ UNCHANGED <<API_KEY, now, up, cols, rows, lastSet, impl>>

(* cache_get: DELETE FROM cache WHERE k=?, after the row read was stale *)
TaskDelete(i) ==
    /\ up /\ req[i].pc = "delete"
    /\ rows' = {r \in rows : r.k # ConcKey}
    /\ req' = [req EXCEPT ![i] = [pc |-> "request"]]
    /\ last' = [op |-> "delete", task |-> i]
    /\ UNCHANGED <<API_KEY, now, up, cols, lastSet, impl>>

(* r = await client.get(...); data = r.json(); _maybe_raise_alpha_error *)
TaskRespond(i, resp) ==
    /\ up /\ req[i].pc = "request"
    /\ req' = [req EXCEPT ![i] =
                  IF resp.kind = "exception"
                  THEN TaskDone(FALSE, TRUE, resp, BodyEmpty)
                  ELSE IF StrTruthy(_maybe_raise_alpha_error(resp.body))
                  THEN TaskDone(FALSE, TRUE, resp, BodyEmpty)
                  ELSE [pc |-> "set", resp |-> resp, data |-> resp.body,
                        recv |-> now]]
    /\ last' = [op |-> "respond", task |-> i]
    /\ UNCHANGED <<API_KEY, now, up, cols, rows, lastSet, impl>>

(* cache_set(key, data); return data *)
TaskSet(i) ==
    /\ up /\ req[i].pc = "set"
    /\ rows' = cache_set(rows, ConcKey, req[i].data, now)
    /\ lastSet' = RecordReceived(lastSet, ConcKey, req[i].data, req[i].recv, now)
    /\ req' = [req EXCEPT ![i] = TaskDone(TRUE, TRUE, req[i].resp, req[i].data)]
    /\ last' = [op |-> "set", task |-> i]
    /\ UNCHANGED <<API_KEY, now, up, cols, impl>>

(* the table at the start: an entry an earlier request stored at clock 0,  *)
(* stale by now, or none; and the entry of another request, or none        *)
ConcurrentInit ==
    /\ now = StaleClock
    /\ API_KEY = Some("demo")
    /\ up = TRUE
    /\ impl = "av_client"
    /\ cols = EXPECTED_COLS
    /\ rows \in SUBSET {[k |-> ConcKey, v |-> json_dumps(BodyOverview), ts |-> 0],
                        [k |-> OtherKey, v |-> json_dumps(BodyIncome), ts |-> 0]}
    /\ lastSet = {}
    /\ last = [op |-> "init"]
    /\ req = [i \in Tasks |-> [pc |-> "select"]]

ConcurrentNext ==
    \/ Tick
    \/ \E i \in Tasks : TaskSelect(i)
    \/ \E i \in Tasks : TaskDelete(i)
    \/ \E i \in Tasks, resp \in ConcResponses : TaskRespond(i, resp)
    \/ \E i \in Tasks : TaskSet(i)

ConcurrentSpec == ConcurrentInit /\ [][ConcurrentNext]_vars

-----------------------------------------------------------------------------
(* The key of a request: the key each program builds for a function and a  *)
(* symbol, the params dict filled in any order                             *)

KeySymbols == {"TEL", "tel", "ST"}

(* the orders in which the three items can be inserted *)
InsertionOrders ==
    {o \in [1..3 -> 1..3] : \A i, j \in 1..3 : o[i] = o[j] => i = j}

KeyRequests == [f : Functions, s : KeySymbols, order : InsertionOrders]

(* the params dict of a request, filled in the request's insertion order *)
ParamsOf(r) == [i \in 1..3 |-> Params(r.f, r.s)[r.order[i]]]

(* the key under which program i caches the answer to request r *)
RequestKey(i, r) ==
    CASE i = "av_client" -> ParamsKey(ParamsOf(r))
      [] i = "main" -> MainKey(r.f, r.s)
      [] OTHER -> VdKey(r.f, r.s)

BuildKeys(a, b) ==
    /\ up /\ req = Idle
    /\ last' = [op |-> "keys", a |-> a, b |-> b,
                ka |-> RequestKey(impl, a), kb |-> RequestKey(impl, b)]
    /\ UNCHANGED <<API_KEY, now, up, cols, rows, lastSet, impl, req>>

KeyInit ==
    /\ now = 0
    /\ API_KEY = Some("demo")
    /\ up = TRUE
    /\ impl \in Impls
    /\ cols = ColsOf(impl)
    /\ rows = {}
    /\ lastSet = {}
    /\ last = [op |-> "init"]
    /\ req = Idle

KeyNext == \E a, b \in KeyRequests : BuildKeys(a, b)

KeySpec == KeyInit /\ [][KeyNext]_vars

-----------------------------------------------------------------------------
(* The start of the process with the credential the environment holds:     *)
(* the import of the module reads it, and the fetches that follow          *)

Credentials == {None, Some(""), Some("demo")}

(* av_client.py: `if not API_KEY: raise RuntimeError(...)`; main.py:       *)
(* os.getenv, no check; vendor-dashboard/main.py: os.environ[...] raises   *)
(* KeyError when the variable is unset                                     *)
ImportRaises(i) ==
    CASE i = "av_client" -> NotApiKey
      [] i = "main" -> FALSE
      [] OTHER -> IsNone(API_KEY)

ImportError(i) ==
    IF i = "av_client"
    THEN [type |-> "RuntimeError", msg |-> "Missing ALPHAVANTAGE_API_KEY"]
    ELSE [type |-> "KeyError", msg |-> "ALPHA_VANTAGE_KEY"]

Import ==
    /\ ~up /\ last.op = "init"
    /\ up' = ~ImportRaises(impl)
    /\ last' = IF ImportRaises(impl)
               THEN [op |-> "import", ok |-> FALSE, exc |-> ImportError(impl)]
               ELSE [op |-> "import", ok |-> TRUE]
    /\ UNCHANGED <<API_KEY, now, cols, rows, lastSet, impl, req>>

CredentialResponses ==
    {TransportFailure, Http(200, BodyOverview), Http(200, BodyNoteFrequency),
     Http(200, BodyErrorMessage), Http(500, BodyEmpty)}

(* the persisted table at the start: empty, or (main.py and                *)
(* vendor-dashboard/main.py, whose keys hold no credential) an entry an    *)
(* earlier run stored                                                      *)
CredentialInit ==
    /\ now = 0
    /\ API_KEY \in Credentials
    /\ up = FALSE
    /\ impl \in Impls
    /\ cols = ColsOf(impl)
    /\ \/ rows = {}
       \/ /\ impl # "av_client"
          /\ rows = {[k |-> KeyOf(impl, "OVERVIEW", "TEL"),
                      v |-> json_dumps(BodyOverview), ts |-> 0]}
    /\ lastSet = {}
    /\ last = [op |-> "init"]
    /\ req = Idle

CredentialNext ==
    \/ Import
    \/ Lapse
    \/ \E f \in Functions, s \in FetchSymbols, resp \in CredentialResponses :
           Fetch(f, s, resp)

CredentialSpec == CredentialInit /\ [][CredentialNext]_vars

-----------------------------------------------------------------------------
(* app.py: the derivation of a comparison row.  Amounts are in millions.   *)

(* int(x) of the numeric strings used, None where int() raises *)
ParseInt(x) ==
    CASE x = "0" -> Some(0)
      [] x = "700" -> Some(700)
      [] x = "800" -> Some(800)
      [] x = "900" -> Some(900)
      [] x = "2000" -> Some(2000)
      [] x = "2500" -> Some(2500)
      [] x = "2999" -> Some(2999)
      [] x = "4999" -> Some(4999)
      [] x = "5000" -> Some(5000)
      [] x = "3000" -> Some(3000)
      [] x = "4000" -> Some(4000)
      [] x = "6000" -> Some(6000)
      [] OTHER -> None

(* _to_int(x), x an Optional[str] as dict.get returns it *)
_to_int(x) == IF IsNone(x) THEN None ELSE ParseInt(Get(x))

(* d.get(key) of a report *)
ReportGet(r, key) == IF key \in DOMAIN r THEN Some(r[key]) ELSE None

(* (inc or {}).get(key) or [] *)
Reports(inc, key) ==
    IF Truthy(inc) /\ key \in DOMAIN inc.d THEN inc.d[key] ELSE <<>>

(* (inc or {}).get raises AttributeError when inc is a non-empty list *)
IncRaises(inc) == Truthy(inc) /\ ~IsDict(inc)

_latest_annual(inc) ==
    LET reports == Reports(inc, "annualReports") IN
    IF Len(reports) > 0 THEN Some(reports[1]) ELSE None

RECURSIVE SumRevenue(_, _)
SumRevenue(q, n) ==
    IF n = 0 THEN 0
    ELSE LET x == _to_int(ReportGet(q[n], "totalRevenue")) IN
         (IF IsNone(x) THEN 0 ELSE Get(x)) + SumRevenue(q, n - 1)

_sum_last4_quarterly_revenue(inc) ==
    LET q == Reports(inc, "quarterlyReports") IN
    IF Len(q) < 4 THEN None
    ELSE LET total == SumRevenue(q, 4) IN
         IF total > 0 THEN Some(total) ELSE None

(* (cur - prev) / prev, kept as the pair <<cur - prev, prev>> *)
_yoy_revenue(inc) ==
    LET a == Reports(inc, "annualReports") IN
    IF Len(a) < 2 THEN None
    ELSE LET cur == _to_int(ReportGet(a[1], "totalRevenue"))
             prev == _to_int(ReportGet(a[2], "totalRevenue"))
         IN  IF IsNone(cur) \/ IsNone(prev) \/ Get(prev) = 0
             THEN None
             ELSE Some(<<Get(cur) - Get(prev), Get(prev)>>)

RevenueThreshold == 3000

(* mutant: the threshold itself classified LOW (<= for <) *)
_revenue_flag_inclusive(revenue) ==
    IF IsNone(revenue) THEN None
    ELSE IF Get(revenue) <= RevenueThreshold THEN Some("LOW") ELSE Some("OK")

(* _revenue_flag(revenue), threshold = 3_000_000_000 *)
_revenue_flag(revenue) ==
    IF IsNone(revenue) THEN None
    ELSE IF Get(revenue) < RevenueThreshold THEN Some("LOW") ELSE Some("OK")

(* VENDOR_SYMBOLS.get(s, s) *)
VENDOR_SYMBOLS(s) ==
    CASE s = "TEL" -> "TE Connectivity"
      [] s = "ST" -> "Sensata Technologies"
      [] s = "DD" -> "DuPont de Nemours"
      [] s = "CE" -> "Celanese"
      [] s = "LYB" -> "LyondellBasell"
      [] OTHER -> s

VendorComparisonRow(symbol, name, sector, industry, marketCap, revenueTTM, ebitdaTTM, yoyRevenue, fiscalYear, revenue, netIncome, revenueFlag) ==
    [symbol |-> symbol, name |-> name, sector |-> sector, industry |-> industry,
     marketCap |-> marketCap, revenueTTM |-> revenueTTM, ebitdaTTM |-> ebitdaTTM,
     yoyRevenue |-> yoyRevenue, fiscalYear |-> fiscalYear, revenue |-> revenue,
     netIncome |-> netIncome, revenueFlag |-> revenueFlag]

(* mutant: the except branch without the fallback display name *)
DegradedRow_noname(s) ==
    VendorComparisonRow(s, s, None, None, None, None, None,
                        None, None, None, None, None)

(* the row of the except branch: VendorComparisonRow(symbol=s, name=...) *)
DegradedRow(s) ==
    VendorComparisonRow(s, VENDOR_SYMBOLS(s), None, None, None, None, None,
                        None, None, None, None, None)

(* ov.get(key) if isinstance(ov, dict) else None *)
OvGet(ov, key) == IF IsDict(ov) THEN DictGet(ov, key) ELSE None

(* the row of the try branch, from the two payloads *)
FullRow(s, ov, inc) ==
    LET latest == _latest_annual(inc)
        ovName == OvGet(ov, "Name")
        name == IF ~IsNone(ovName) /\ StrTruthy(Get(ovName))
                THEN Get(ovName) ELSE VENDOR_SYMBOLS(s)
        revenue_annual == IF IsNone(latest) THEN None
                          ELSE _to_int(ReportGet(Get(latest), "totalRevenue"))
    IN  VendorComparisonRow(
            s, name, OvGet(ov, "Sector"), OvGet(ov, "Industry"),
            _to_int(OvGet(ov, "MarketCapitalization")),
            _sum_last4_quarterly_revenue(inc),
            _to_int(OvGet(ov, "EBITDA")),
            _yoy_revenue(inc),
            IF IsNone(latest) THEN None ELSE ReportGet(Get(latest), "fiscalDateEnding"),
            revenue_annual,
            IF IsNone(latest) THEN None ELSE _to_int(ReportGet(Get(latest), "netIncome")),
            _revenue_flag(revenue_annual))

(* the body of the loop of api_compare once both fetches returned *)
CompareRow(s, ov, inc) ==
    IF IncRaises(inc) THEN DegradedRow(s) ELSE FullRow(s, ov, inc)

-----------------------------------------------------------------------------
(* app.py: GET /api/compare, one fetch per step *)

HandlerResponses ==
    {TransportFailure, Http(200, BodyOverview), Http(200, BodyIncome),
     Http(200, BodyList), Http(200, BodyNoteFrequency)}

CompareSymbols == {"tel", "XYZ"}

RECURSIVE SeqsUpTo(_, _)
SeqsUpTo(S, n) ==
    IF n = 0 THEN {<<>>}
    ELSE LET shorter == SeqsUpTo(S, n - 1) IN
         shorter \cup {Append(q, x) : q \in {y \in shorter : Len(y) = n - 1}, x \in S}

CompareRequests == SeqsUpTo(CompareSymbols, MaxSymbols) \ {<<>>}

CompareStart(v) ==
    /\ up /\ req = Idle
    /\ req' = [kind |-> "compare", v |-> v, i |-> 1, phase |-> "overview",
               ov |-> BodyEmpty, outs |-> <<>>, rows |-> <<>>]
    /\ last' = [op |-> "compare_start"]
    /\ UNCHANGED <<API_KEY, now, up, cols, rows, lastSet, impl>>

(* await get_overview(s) *)
CompareOverview(resp) ==
    /\ req.kind = "compare" /\ req.i <= Len(req.v) /\ req.phase = "overview"
    /\ LET s == Upper(req.v[req.i])
           out == _fetch(rows, "OVERVIEW", s, resp, now)
       IN  /\ rows' = out.rows
           /\ last' = [op |-> "compare_fetch", s |-> s]
           /\ req' = IF out.ok
                     THEN [req EXCEPT !.phase = "income", !.ov = out.data]
                     ELSE [req EXCEPT !.i = @ + 1,
                                      !.outs = Append(@, <<"failed">>),
                                      !.rows = Append(@, DegradedRow(s))]
    /\ UNCHANGED <<API_KEY, now, up, cols, lastSet, impl>>

(* await get_income_statement(s), and the row of the symbol *)
CompareIncome(resp) ==
    /\ req.kind = "compare" /\ req.i <= Len(req.v) /\ req.phase = "income"
    /\ LET s == Upper(req.v[req.i])
           out == _fetch(rows, "INCOME_STATEMENT", s, resp, now)
       IN  /\ rows' = out.rows
           /\ last' = [op |-> "compare_fetch", s |-> s]
           /\ req' = [req EXCEPT
                        !.i = @ + 1, !.phase = "overview", !.ov = BodyEmpty,
                        !.outs = Append(@, IF out.ok THEN <<"fetched", req.ov, out.data>>
                                           ELSE <<"failed">>),
                        !.rows = Append(@, IF out.ok THEN CompareRow(s, req.ov, out.data)
                                           ELSE DegradedRow(s))]
    /\ UNCHANGED <<API_KEY, now, up, cols, lastSet, impl>>

(* return rows *)
CompareReturn ==
    /\ req.kind = "compare" /\ req.i > Len(req.v)
    /\ last' = [op |-> "compare", v |-> req.v, outs |-> req.outs, ret |-> req.rows]
    /\ req' = Idle
    /\ UNCHANGED <<API_KEY, now, up, cols, rows, lastSet, impl>>

CompareInit ==
    /\ now = 0
    /\ API_KEY = Some("demo")
    /\ up = TRUE
    /\ impl = "av_client"
    /\ cols = EXPECTED_COLS
    /\ rows = {}
    /\ lastSet = {}
    /\ last = [op |-> "init"]
    /\ req = Idle

CompareNext ==
    \/ Lapse
    \/ \E v \in CompareRequests : CompareStart(v)
    \/ \E resp \in HandlerResponses : CompareOverview(resp)
    \/ \E resp \in HandlerResponses : CompareIncome(resp)
    \/ CompareReturn

CompareSpec == CompareInit /\ [][CompareNext]_vars

-----------------------------------------------------------------------------
(* app.py: POST /api/prime, one fetch per step *)

Roster == <<"TEL", "ST", "DD", "CE", "LYB">>

PrimeResponses ==
    {TransportFailure, Http(200, BodyOverview), Http(200, BodyErrorMessage),
     Http(200, BodyNoteFrequency), Http(200, BodyInformationLimit)}

(* str(e): the text of the exception, f"Alpha Vantage {f}({s}) error: {msg}" *)
ErrorText(exc) ==
    IF exc.type = "RuntimeError"
    THEN <<"Alpha Vantage ", exc.f, "(", exc.s, ") error: ", exc.msg>>
    ELSE <<exc.msg>>

(* word in str(e).lower(): the prefix, the function names and the roster's *)
(* symbols hold neither "quota" nor "limit"                                *)
InErrorLower(word, exc) == InLower(word, exc.msg)

(* "quota" in str(e).lower() or "limit" in str(e).lower() *)
StopsPriming(exc) == InErrorLower("quota", exc) \/ InErrorLower("limit", exc)

(* await asyncio.sleep(1.0); the clock stops at MaxTime *)
AfterSleep(t) == IF t + TicksPerSec <= MaxTime THEN t + TicksPerSec ELSE MaxTime

(* the provider signalling a rate limit or quota in a soft error *)
IsRateLimitSignal(resp) ==
    /\ resp.kind = "http"
    /\ IsSoftError(resp.body)
    /\ \E key \in SoftErrorKeys :
           /\ HasKey(resp.body, key)
           /\ \E w \in {"frequency", "limit", "quota"} : InLower(w, resp.body.d[key])

(* one priming run per behaviour, over the cache the start left *)
PrimeStart ==
    /\ up /\ req = Idle
    /\ last.op = "init"
    /\ req' = [kind |-> "prime", i |-> 1, phase |-> "overview", primed |-> <<>>,
               calls |-> <<>>, signal |-> FALSE]
    /\ last' = [op |-> "prime_start"]
    /\ UNCHANGED <<API_KEY, now, up, cols, rows, lastSet, impl>>

(* mutant: the except branch appends no entry *)
PrimeFailed_silent(r, s, exc) ==
    [r EXCEPT !.phase = "overview",
              !.i = IF StopsPriming(exc) THEN Len(Roster) + 1 ELSE @ + 1]

(* the except branch: the entry appended, and break on a quota or limit *)
PrimeFailed(r, s, exc) ==
    [r EXCEPT !.primed = Append(@, [symbol |-> s, ok |-> FALSE,
                                    error |-> ErrorText(exc)]),
              !.phase = "overview",
              !.i = IF StopsPriming(exc) THEN Len(Roster) + 1 ELSE @ + 1]

(* _ = await get_overview(s); await asyncio.sleep(1.0) *)
PrimeOverview(resp) ==
    /\ req.kind = "prime" /\ req.i <= Len(Roster) /\ req.phase = "overview"
    /\ LET s == Roster[req.i]
           out == _fetch(rows, "OVERVIEW", s, resp, now)
           r1 == [req EXCEPT !.calls = Append(@, <<"OVERVIEW", s, out.ok>>),
                             !.signal = @ \/ (out.net /\ IsRateLimitSignal(resp))]
       IN  /\ rows' = out.rows
           /\ last' = [op |-> "prime_fetch", s |-> s, i |-> req.i, net |-> out.net]
           /\ req' = IF out.ok THEN [r1 EXCEPT !.phase = "income"]
                     ELSE PrimeFailed(r1, s, out.exc)
           /\ now' = IF out.ok \/ ~StopsPriming(out.exc) THEN AfterSleep(now) ELSE now
    /\ UNCHANGED <<API_KEY, up, cols, lastSet, impl>>

(* _ = await get_income_statement(s); primed.append(...); sleep *)
PrimeIncome(resp) ==
    /\ req.kind = "prime" /\ req.i <= Len(Roster) /\ req.phase = "income"
    /\ LET s == Roster[req.i]
           out == _fetch(rows, "INCOME_STATEMENT", s, resp, now)
           r1 == [req EXCEPT !.calls = Append(@, <<"INCOME_STATEMENT", s, out.ok>>),
                             !.signal = @ \/ (out.net /\ IsRateLimitSignal(resp))]
       IN  /\ rows' = out.rows
           /\ last' = [op |-> "prime_fetch", s |-> s, i |-> req.i, net |-> out.net]
           /\ req' = IF out.ok
                     THEN [r1 EXCEPT !.primed = Append(@, [symbol |-> s, ok |-> TRUE]),
                                     !.phase = "overview", !.i = @ + 1]
                     ELSE PrimeFailed(r1, s, out.exc)
           /\ now' = IF out.ok \/ ~StopsPriming(out.exc) THEN AfterSleep(now) ELSE now
    /\ UNCHANGED <<API_KEY, up, cols, lastSet, impl>>

(* return {"primed": primed} *)
PrimeReturn ==
    /\ req.kind = "prime" /\ req.i > Len(Roster)
    /\ last' = [op |-> "prime", ret |-> req.primed, calls |-> req.calls]
    /\ req' = Idle
    /\ UNCHANGED <<API_KEY, now, up, cols, rows, lastSet, impl>>

(* the cache at the start: payloads of earlier requests for the first      *)
(* symbol of the roster, written at clock 0                                *)
PrimedKeys ==
    {AvKey(f, s) : f \in Functions, s \in {Roster[1]}}

PrimeInit ==
    /\ now = 0
    /\ API_KEY = Some("demo")
    /\ up = TRUE
    /\ impl = "av_client"
    /\ cols = EXPECTED_COLS
    /\ \E K \in SUBSET PrimedKeys :
           rows = {[k |-> key, v |-> json_dumps(BodyOverview), ts |-> 0] : key \in K}
    /\ lastSet = {}
    /\ last = [op |-> "init"]
    /\ req = Idle

PrimeStep ==
    \/ \E resp \in PrimeResponses : PrimeOverview(resp)
    \/ \E resp \in PrimeResponses : PrimeIncome(resp)
    \/ PrimeReturn

PrimeNext ==
    \/ PrimeStart
    \/ PrimeStep

(* the event loop runs the handler to its end: every await returns or raises *)
PrimeSpec == PrimeInit /\ [][PrimeNext]_vars /\ WF_vars(PrimeStep)

-----------------------------------------------------------------------------
(* main.py and vendor-dashboard/main.py: derive_metrics.  Amounts are in   *)
(* millions; float(x) of the numeric strings used is the integer they hold *)

(* safe_float(x) of main.py, x an Optional[str] *)
main_safe_float(x) ==
    IF IsNone(x) \/ Get(x) = "" THEN None ELSE ParseInt(Get(x))

(* safe_float(x) of vendor-dashboard/main.py: float(None), float("") raise *)
vd_safe_float(x) == IF IsNone(x) THEN None ELSE ParseInt(Get(x))

(* (inc.get("annualReports") or [])[:2] *)
FirstTwoAnnual(inc) ==
    LET a == IF "annualReports" \in DOMAIN inc.d THEN inc.d["annualReports"] ELSE <<>>
    IN  IF Len(a) > 2 THEN SubSeq(a, 1, 2) ELSE a

(* main.py: r0 is not None and r1 not in (None, 0) *)
main_yoy(inc) ==
    LET ar == FirstTwoAnnual(inc) IN
    IF Len(ar) < 2 THEN None
    ELSE LET r0 == main_safe_float(ReportGet(ar[1], "totalRevenue"))
             r1 == main_safe_float(ReportGet(ar[2], "totalRevenue"))
         IN  IF ~IsNone(r0) /\ ~IsNone(r1) /\ Get(r1) # 0
             THEN Some(<<Get(r0) - Get(r1), Get(r1)>>)
             ELSE None

(* vendor-dashboard/main.py: r0 and r1 and r1 != 0 *)
vd_yoy(inc) ==
    LET ar == FirstTwoAnnual(inc) IN
    IF Len(ar) < 2 THEN None
    ELSE LET r0 == vd_safe_float(ReportGet(ar[1], "totalRevenue"))
             r1 == vd_safe_float(ReportGet(ar[2], "totalRevenue"))
         IN  IF ~IsNone(r0) /\ Get(r0) # 0 /\ ~IsNone(r1) /\ Get(r1) # 0
             THEN Some(<<Get(r0) - Get(r1), Get(r1)>>)
             ELSE None

LowRevenueThreshold == 5000

(* yoy < 0 for yoy = num / den *)
Negative(q) == (q[1] < 0 /\ q[2] > 0) \/ (q[1] > 0 /\ q[2] < 0)

Flags(revenue_ttm, yoy) ==
    (IF ~IsNone(revenue_ttm) /\ Get(revenue_ttm) < LowRevenueThreshold
     THEN <<"LOW_REVENUE">> ELSE <<>>)
        \o (IF ~IsNone(yoy) /\ Negative(Get(yoy)) THEN <<"NEG_YOY_REVENUE">> ELSE <<>>)

(* ov.get / inc.get raise AttributeError on a payload that is no dict *)
MetricsRaise(ov, inc) == ~IsDict(ov) \/ ~IsDict(inc)

(* the record derive_metrics returns, of main.py *)
main_metrics(symbol, ov, inc) ==
    LET revenue_ttm == main_safe_float(DictGet(ov, "RevenueTTM"))
        yoy == main_yoy(inc)
    IN  [symbol |-> Upper(symbol), name |-> DictGet(ov, "Name"),
         sector |-> DictGet(ov, "Sector"),
         marketCap |-> main_safe_float(DictGet(ov, "MarketCapitalization")),
         revenueTTM |-> revenue_ttm,
         grossProfitTTM |-> main_safe_float(DictGet(ov, "GrossProfitTTM")),
         ebitdaTTM |-> main_safe_float(DictGet(ov, "EBITDA")),
         yoyRevenue |-> yoy, flags |-> Flags(revenue_ttm, yoy)]

(* the record derive_metrics returns, of vendor-dashboard/main.py *)
vd_metrics(symbol, ov, inc) ==
    LET revenue_ttm == vd_safe_float(DictGet(ov, "RevenueTTM"))
        yoy == vd_yoy(inc)
    IN  [symbol |-> symbol, name |-> DictGet(ov, "Name"),
         sector |-> DictGet(ov, "Sector"),
         marketCap |-> vd_safe_float(DictGet(ov, "MarketCapitalization")),
         revenueTTM |-> revenue_ttm,
         grossProfitTTM |-> vd_safe_float(DictGet(ov, "GrossProfitTTM")),
         ebitdaTTM |-> vd_safe_float(DictGet(ov, "EBITDA")),
         yoyRevenue |-> yoy, flags |-> Flags(revenue_ttm, yoy)]

MetricsOf(i, symbol, ov, inc) ==
    IF i = "main" THEN main_metrics(symbol, ov, inc) ELSE vd_metrics(symbol, ov, inc)

-----------------------------------------------------------------------------
(* The derivation of one record from an overview and an income statement   *)
(* the two fetches returned, by whichever program is deployed              *)

MaxAnnual == 3
MaxQuarterly == 5

(* a report with the totalRevenue the provider gave, or without the field *)
ReportWith(fy, rev) ==
    IF IsNone(rev) THEN [fiscalDateEnding |-> fy]
    ELSE [fiscalDateEnding |-> fy, totalRevenue |-> Get(rev)]

AnnualChoices ==
    {ReportWith("2024-09-30", rev) :
        rev \in {None, Some("None"), Some("0"), Some("2500"), Some("2999"), Some("3000")}}
QuarterlyChoices ==
    {ReportWith("2024-09-30", rev) : rev \in {None, Some("None"), Some("0"), Some("700")}}

DeriveIncomes ==
    {BodyEmpty, BodyIncome}
        \cup {Dict([annualReports |-> a, quarterlyReports |-> <<>>]) :
                  a \in SeqsUpTo(AnnualChoices, MaxAnnual)}
        \cup {Dict([annualReports |-> <<>>, quarterlyReports |-> q]) :
                  q \in SeqsUpTo(QuarterlyChoices, MaxQuarterly)}

DeriveOverviews ==
    {BodyEmpty, BodyOverview}
        \cup {Dict([Name |-> "TE Connectivity plc", RevenueTTM |-> x]) :
                  x \in {"None", "4999", "5000"}}

(* the record built from the two payloads: the try branch of api_compare,  *)
(* derive_metrics of main.py or of vendor-dashboard/main.py                *)
RecordOf(i, s, ov, inc) ==
    IF i = "av_client" THEN CompareRow(s, ov, inc) ELSE MetricsOf(i, s, ov, inc)

(* the handler holding the two payloads derives the record *)
Derive ==
    /\ up /\ req.kind = "derive"
    /\ last' = [op |-> "derive", ov |-> req.ov, inc |-> req.inc,
                ret |-> RecordOf(impl, "TEL", req.ov, req.inc)]
    /\ req' = Idle
    /\ UNCHANGED <<API_KEY, now, up, cols, rows, lastSet, impl>>

DeriveInit ==
    /\ now = 0
    /\ API_KEY = Some("demo")
    /\ up = TRUE
    /\ impl \in Impls
    /\ cols = ColsOf(impl)
    /\ rows = {}
    /\ lastSet = {}
    /\ last = [op |-> "init"]
    /\ \E ov \in DeriveOverviews, inc \in DeriveIncomes :
           req = [kind |-> "derive", ov |-> ov, inc |-> inc]

DeriveNext == Derive

DeriveSpec == DeriveInit /\ [][DeriveNext]_vars

-----------------------------------------------------------------------------
(* GET /api/vendors of main.py and of vendor-dashboard/main.py, one fetch  *)
(* per step                                                                *)

(* str.strip() on the tickers used *)
Strip(x) == IF x = " tel" THEN "tel" ELSE x

VendorsTokens == {" tel", "XYZ", ""}
VendorsRequests == SeqsUpTo(VendorsTokens, MaxSymbols) \ {<<>>}

(* [s.strip().upper() for s in symbols.split(",") if s.strip()] *)
RECURSIVE Tickers(_)
Tickers(tokens) ==
    IF tokens = <<>> THEN <<>>
    ELSE (IF Strip(Head(tokens)) # "" THEN <<Upper(Strip(Head(tokens)))>> ELSE <<>>)
             \o Tickers(Tail(tokens))

AttributeError == [type |-> "AttributeError", msg |-> "object has no attribute 'get'"]

(* the item main.py appends for a symbol whose derive_metrics raised *)
ErrorItem(sym, exc) ==
    IF exc.type = "HTTPException"
    THEN [symbol |-> sym, error |-> <<exc.msg>>]
    ELSE [symbol |-> sym, error |-> <<"Unhandled error: ", exc.msg>>]

(* what an exception raised for one symbol does to the request: main.py    *)
(* appends an item and goes on, vendor-dashboard/main.py lets it propagate *)
VendorsFailed(i, r, sym, exc) ==
    IF i = "main"
    THEN [r EXCEPT !.i = @ + 1, !.phase = "overview", !.ov = BodyEmpty,
                   !.outs = Append(@, "failed"),
                   !.out = Append(@, ErrorItem(sym, exc))]
    ELSE [r EXCEPT !.phase = "raised", !.exc = exc, !.outs = Append(@, "failed")]

VendorsStart(tokens) ==
    /\ up /\ req = Idle
    /\ req' = [kind |-> "vendors", tickers |-> Tickers(tokens), i |-> 1,
               phase |-> "overview", ov |-> BodyEmpty, outs |-> <<>>, out |-> <<>>,
               exc |-> HTTPException(400, "Provide at least one symbol")]
    /\ last' = [op |-> "vendors_start"]
    /\ UNCHANGED <<API_KEY, now, up, cols, rows, lastSet, impl>>

(* ov = av_get("OVERVIEW", symbol) *)
VendorsOverview(resp) ==
    /\ req.kind = "vendors" /\ req.i <= Len(req.tickers) /\ req.phase = "overview"
    /\ LET sym == req.tickers[req.i]
           out == FetchOf(impl, rows, "OVERVIEW", sym, resp, now)
       IN  /\ rows' = out.rows
           /\ last' = [op |-> "vendors_fetch", s |-> sym]
           /\ req' = IF out.ok
                     THEN [req EXCEPT !.phase = "income", !.ov = out.data]
                     ELSE VendorsFailed(impl, req, sym, out.exc)
    /\ UNCHANGED <<API_KEY, now, up, cols, lastSet, impl>>

(* inc = av_get("INCOME_STATEMENT", symbol), and the rest of derive_metrics *)
VendorsIncome(resp) ==
    /\ req.kind = "vendors" /\ req.i <= Len(req.tickers) /\ req.phase = "income"
    /\ LET sym == req.tickers[req.i]
           out == FetchOf(impl, rows, "INCOME_STATEMENT", sym, resp, now)
       IN  /\ rows' = out.rows
           /\ last' = [op |-> "vendors_fetch", s |-> sym]
           /\ req' = IF ~out.ok
                     THEN VendorsFailed(impl, req, sym, out.exc)
                     ELSE IF MetricsRaise(req.ov, out.data)
                     THEN VendorsFailed(impl, req, sym, AttributeError)
                     ELSE [req EXCEPT
                             !.i = @ + 1, !.phase = "overview", !.ov = BodyEmpty,
                             !.outs = Append(@, "derived"),
                             !.out = Append(@, MetricsOf(impl, sym, req.ov, out.data))]
    /\ UNCHANGED <<API_KEY, now, up, cols, lastSet, impl>>

(* return {"vendors": out}; main.py answers 400 when no ticker is left; an *)
(* exception that left vendors() fails the request                         *)
VendorsReturn ==
    /\ req.kind = "vendors"
    /\ req.i > Len(req.tickers) \/ req.phase = "raised"
    /\ last' =
         IF req.phase = "raised"
         THEN [op |-> "vendors", tickers |-> req.tickers, outs |-> req.outs,
               ok |-> FALSE, exc |-> req.exc]
         ELSE IF impl = "main" /\ req.tickers = <<>>
         THEN [op |-> "vendors", tickers |-> req.tickers, outs |-> req.outs,
               ok |-> FALSE, exc |-> req.exc]
         ELSE [op |-> "vendors", tickers |-> req.tickers, outs |-> req.outs,
               ok |-> TRUE, vendors |-> req.out]
    /\ req' = Idle
    /\ UNCHANGED <<API_KEY, now, up, cols, rows, lastSet, impl>>

VendorsInit ==
    /\ now = 0
    /\ API_KEY = Some("demo")
    /\ up = TRUE
    /\ impl \in {"main", "vendor-dashboard"}
    /\ cols = MainCols
    /\ rows = {}
    /\ lastSet = {}
    /\ last = [op |-> "init"]
    /\ req = Idle

VendorsNext ==
    \/ Lapse
    \/ \E tokens \in VendorsRequests : VendorsStart(tokens)
    \/ \E resp \in HandlerResponses : VendorsOverview(resp)
    \/ \E resp \in HandlerResponses : VendorsIncome(resp)
    \/ VendorsReturn

VendorsSpec == VendorsInit /\ [][VendorsNext]_vars

-----------------------------------------------------------------------------
(* Properties of the cache *)

History(key) == CHOOSE h \in lastSet : h.k = key
HasHistory(key) == \E h \in lastSet : h.k = key
Stored(key) == SelectRows(rows, key) # {}

(* C3, as claimed: a cache_get of a stored entry written at clock T returns *)
(* the payload when now - T <= ttl and absent when now - T > ttl.           *)
C3_AsClaimed ==
    [][(last'.op = "cache_get" /\ Stored(last'.key)) =>
        LET h == History(last'.key) IN
        IF now - h.at <= last'.ttl * TicksPerSec
        THEN last'.ret = Some(h.value)
        ELSE last'.ret = None]_vars

(* C3, amended: the stored timestamp is the whole second of the write,     *)
(* floor(T): a cache_get of a stored entry returns the payload when        *)
(* now - floor(T) <= ttl (the boundary included) and absent otherwise.     *)
C3_TtlBoundary ==
    [][(last'.op = "cache_get" /\ Stored(last'.key)) =>
        LET h == History(last'.key) IN
        IF now - IntTime(h.at) * TicksPerSec <= last'.ttl * TicksPerSec
        THEN last'.ret = Some(h.value)
        ELSE last'.ret = None]_vars

(* a cache_get exactly at the boundary returned the payload of an entry    *)
(* written in the middle of a second                                       *)
C3_Witness ==
    /\ last.op = "cache_get"
    /\ HasHistory(last.key)
    /\ last.ret = Some(History(last.key).value)
    /\ History(last.key).at % TicksPerSec # 0
    /\ now - IntTime(History(last.key).at) * TicksPerSec = last.ttl * TicksPerSec


(* C4, as claimed: a get with a larger ttl still returns the payload after *)
(* an earlier get with a smaller ttl found the entry stale, when no set    *)
(* intervened and now - T <= ttl.                                          *)
C4_AsClaimed ==
    [][(/\ last'.op = "cache_get"
        /\ HasHistory(last'.key)
        /\ History(last'.key).stale
        /\ ~History(last'.key).lost
        /\ now - History(last'.key).at <= last'.ttl * TicksPerSec)
       => last'.ret = Some(History(last'.key).value)]_vars

(* C4, amended: no TTL is stored per entry, but a cache_get made when the  *)
(* entry's age exceeds its ttl deletes the entry.  A cache_get returns the *)
(* payload of the last cache_set exactly when now - floor(T) <= ttl, no    *)
(* earlier cache_get since that set was made with a ttl below the entry's  *)
(* age at the time, and the table was not recreated since; otherwise it    *)
(* returns absent.                                                         *)
C4_ReadTimeTtl ==
    [][last'.op = "cache_get" =>
        last'.ret =
            IF /\ HasHistory(last'.key)
               /\ ~History(last'.key).stale
               /\ ~History(last'.key).lost
               /\ now - IntTime(History(last'.key).at) * TicksPerSec
                      <= last'.ttl * TicksPerSec
            THEN Some(History(last'.key).value)
            ELSE None]_vars

(* a get within its own ttl returned absent because an earlier get with a  *)
(* smaller ttl had found the entry stale                                   *)
C4_Witness ==
    /\ last.op = "cache_get"
    /\ last.ret = None
    /\ HasHistory(last.key)
    /\ History(last.key).stale
    /\ ~History(last.key).lost
    /\ now - IntTime(History(last.key).at) * TicksPerSec <= last.ttl * TicksPerSec

(* C5: the table holds at most one row per key, and a stored row carries   *)
(* the payload and the timestamp of the most recent cache_set of its key;  *)
(* a cache_set leaves exactly its own row under its key and the rows of    *)
(* the other keys as they were.                                            *)
C5_OnePerKey ==
    \A r \in rows :
        /\ SelectRows(rows, r.k) = {r}
        /\ HasHistory(r.k)
        /\ json_loads(r.v) = History(r.k).value
        /\ r.ts = IntTime(History(r.k).at)

C5_SetFrame ==
    last'.op = "cache_set" =>
        /\ {r \in rows' : r.k # last'.key} = {r \in rows : r.k # last'.key}
        /\ SelectRows(rows', last'.key)
               = {[k |-> last'.key, v |-> json_dumps(last'.value),
                   ts |-> IntTime(now')]}

C5_LatestWriteWins == []C5_OnePerKey /\ [][C5_SetFrame]_vars

(* a cache_set replaced an older row of its key by another payload while a *)
(* row of another key, written earlier, is still there                     *)
C5_Witness ==
    /\ last.op = "cache_set"
    /\ Cardinality(rows) = 2
    /\ \E r \in rows : r.k = last.key /\ r.ts > 0
    /\ \E r \in rows : r.k # last.key /\ r.ts = 0 /\ json_loads(r.v) # last.value

(* C6: the startup schema guard leaves a table with exactly the columns    *)
(* {k, v, ts}; when the persisted columns differed the table is empty and  *)
(* every key reads as absent, and when they matched every row is kept.     *)
C6_SchemaGuard ==
    [][last'.op = "start" =>
        /\ cols' = {"k", "v", "ts"}
        /\ (cols # {"k", "v", "ts"} =>
               /\ rows' = {}
               /\ \A h \in lastSet, ttl \in GetTtls :
                      cache_get(rows', h.k, ttl, now') = None)
        /\ (cols = {"k", "v", "ts"} => rows' = rows)]_vars

(* a restart over a table with other columns wiped entries stored before   *)
C6_Witness ==
    /\ last.op = "start"
    /\ rows = {}
    /\ \E h \in lastSet : h.lost


(* the result of cache_get(key, ttl) at clock t on a table whose only row  *)
(* of key holds value with the timestamp of a cache_set at clock t0        *)
ReadAfterSet(value, t0, ttl, t) ==
    IF t - IntTime(t0) * TicksPerSec <= ttl * TicksPerSec THEN Some(value) ELSE None

(* C15: a cache_set(key, payload) made while the table holds the entry of  *)
(* an earlier cache_set(key, payload) leaves what a single call at that    *)
(* time leaves: one row of the key, every later cache_get(key, ttl)        *)
(* returning what it returns after the single call, and the rows and the   *)
(* reads of every other key as they were.                                  *)
C15_SetIdempotent ==
    [][(/\ last'.op = "cache_set"
        /\ \E r \in SelectRows(rows, last'.key) : json_loads(r.v) = last'.value)
       => /\ Cardinality(SelectRows(rows', last'.key)) = 1
          /\ \A ttl \in GetTtls, t \in now..MaxTime :
                 cache_get(rows', last'.key, ttl, t)
                     = ReadAfterSet(last'.value, now, ttl, t)
          /\ \A key \in CacheKeys \ {last'.key} :
                 /\ SelectRows(rows', key) = SelectRows(rows, key)
                 /\ \A ttl \in GetTtls, t \in now..MaxTime :
                        cache_get(rows', key, ttl, t) = cache_get(rows, key, ttl, t)]_vars

(* a second cache_set of the same payload, a second or more after the      *)
(* first, while another key is stored                                      *)
C15_Witness ==
    /\ last.op = "cache_set"
    /\ \E r \in last.replaced : json_loads(r.v) = last.value /\ r.ts < IntTime(now)
    /\ \E r \in rows : r.k # last.key
    /\ now < MaxTime

-----------------------------------------------------------------------------
(* Properties of the fetch *)

(* C1: the cache never holds a soft-error response, a JSON object with an  *)
(* "Error Message", "Information" or "Note" key.                           *)
C1_NoSoftErrorCached ==
    \A r \in rows : ~IsSoftError(json_loads(r.v))

(* a stored row of key whose age, from its stored timestamp, is within TTL *)
FreshRows(key) ==
    {r \in SelectRows(rows, key) : now - r.ts * TicksPerSec <= TtlSeconds * TicksPerSec}

(* C2: a fetch issues an upstream request exactly when the table holds no  *)
(* entry of its key within the TTL, and otherwise returns that entry's     *)
(* payload whatever it is.                                                 *)
C2_NetworkIffNoFreshEntry ==
    [][last'.op = "fetch" =>
        /\ last'.out.net <=> (FreshRows(last'.key) = {})
        /\ \A r \in FreshRows(last'.key) :
               last'.out.ok /\ last'.out.data = json_loads(r.v)]_vars

(* C11: a fetch whose upstream response has a status other than 200 fails, *)
(* whatever the body, and adds no row under its key.                       *)
C11_NonSuccessFails ==
    [][(/\ last'.op = "fetch"
        /\ last'.out.net
        /\ last'.resp.kind = "http"
        /\ last'.resp.status # 200)
       => /\ ~last'.out.ok
          /\ SelectRows(rows', last'.key) \subseteq SelectRows(rows, last'.key)]_vars

(* the statuses av_get answers an upstream failure with *)
UpstreamStatuses == {502, 429}

(* C12: with the credential unset or empty no upstream request is issued:  *)
(* a fetch, when the process serves at all, issues no request and, when it *)
(* fails, fails with a configuration error whose status is none of the     *)
(* upstream-failure ones.                                                  *)
C12_NoRequestWithoutCredential ==
    [][(NotApiKey /\ last'.op = "fetch") =>
        /\ ~last'.out.net
        /\ (~last'.out.ok =>
               /\ last'.out.exc.type = "HTTPException"
               /\ last'.out.exc.status \notin UpstreamStatuses)]_vars

(* the messages a soft-error response carries *)
ProviderMessages(body) == {body.d[key] : key \in SoftErrorKeys \cap DOMAIN body.d}

(* C13: av_get answers a soft-error response (status 200, a body with a    *)
(* soft-error key) with an HTTPException whose status is 429 exactly when  *)
(* the message indicates a quota, frequency or rate limit and 502          *)
(* otherwise, and whose detail is the provider's message.                  *)
C13_SoftErrorStatus ==
    [][(/\ last'.op = "fetch"
        /\ impl \in {"main", "vendor-dashboard"}
        /\ last'.out.net
        /\ last'.resp.kind = "http"
        /\ last'.resp.status = 200
        /\ IsSoftError(last'.resp.body))
       => /\ ~last'.out.ok
          /\ last'.out.exc.type = "HTTPException"
          /\ last'.out.exc.status = IF IsRateLimitSignal(last'.resp) THEN 429 ELSE 502
          /\ last'.out.exc.msg \in ProviderMessages(last'.resp.body)]_vars

-----------------------------------------------------------------------------
(* Properties of GET /api/compare *)

KeySymbol(key) == key[7]

(* the fields of a row other than symbol and name *)
MetricFields ==
    {"sector", "industry", "marketCap", "revenueTTM", "ebitdaTTM", "yoyRevenue",
     "fiscalYear", "revenue", "netIncome", "revenueFlag"}

(* C7: api_compare returns one record per requested symbol, in request     *)
(* order, record i carrying the upper-cased i-th symbol; the record of a   *)
(* symbol whose fetch or derivation failed is the minimal record; the      *)
(* record of any other symbol is determined by that symbol's own two       *)
(* payloads, and the fetches of one symbol leave the cache entries of the  *)
(* other symbols as they were.                                             *)
C7_Returned ==
    last'.op = "compare" =>
        /\ Len(last'.ret) = Len(last'.v)
        /\ \A i \in 1..Len(last'.v) :
            LET s == Upper(last'.v[i])
                o == last'.outs[i]
                row == last'.ret[i]
            IN  /\ row.symbol = s
                /\ (o[1] = "failed" \/ (o[1] = "fetched" /\ IncRaises(o[3]))) =>
                       /\ row.name = VENDOR_SYMBOLS(s)
                       /\ \A fld \in MetricFields : row[fld] = None
                /\ (o[1] = "fetched" /\ ~IncRaises(o[3])) =>
                       row = FullRow(s, o[2], o[3])

C7_Frame ==
    last'.op = "compare_fetch" =>
        {r \in rows' : KeySymbol(r.k) # last'.s} = {r \in rows : KeySymbol(r.k) # last'.s}

C7_BatchDegradation == [][C7_Returned /\ C7_Frame]_vars

(* two symbols were requested, the second failed and got the minimal      *)
(* record, the first is populated                                          *)
C7_Witness ==
    /\ last.op = "compare"
    /\ last.v = <<"tel", "XYZ">>
    /\ last.outs[2] = <<"failed">>
    /\ last.ret[2] = [symbol |-> "XYZ", name |-> "XYZ", sector |-> None,
                      industry |-> None, marketCap |-> None, revenueTTM |-> None,
                      ebitdaTTM |-> None, yoyRevenue |-> None, fiscalYear |-> None,
                      revenue |-> None, netIncome |-> None, revenueFlag |-> None]
    /\ last.ret[1].symbol = "TEL"
    /\ last.ret[1].revenue = Some(3000)
    /\ last.ret[1].revenueFlag = Some("OK")

-----------------------------------------------------------------------------
(* Properties of POST /api/prime *)

(* C9: once an upstream call of a priming run failed with a rate-limit or  *)
(* quota soft error, the run issues no upstream call for a later symbol.   *)
C9_StopsAtSignal ==
    [][(last'.op = "prime_fetch" /\ last'.net) => ~req.signal]_vars


RosterIndex(s) == CHOOSE i \in 1..Len(Roster) : Roster[i] = s

(* C10: a priming run ends with a report: one entry per attempted symbol,  *)
(* the attempted symbols being a prefix of the roster in roster order,     *)
(* ok exactly for the symbols whose two fetches succeeded and the error    *)
(* text otherwise; the fetches were made one after the other, OVERVIEW     *)
(* before INCOME_STATEMENT for each symbol.                                *)
C10_Report ==
    last'.op = "prime" =>
        LET ret == last'.ret
            calls == last'.calls
        IN  /\ Len(ret) <= Len(Roster)
            /\ \A i \in 1..Len(ret) :
                   /\ ret[i].symbol = Roster[i]
                   /\ ret[i].ok <=>
                          /\ \E j \in 1..Len(calls) : calls[j] = <<"OVERVIEW", Roster[i], TRUE>>
                          /\ \E j \in 1..Len(calls) :
                                 calls[j] = <<"INCOME_STATEMENT", Roster[i], TRUE>>
                   /\ DOMAIN ret[i] =
                          IF ret[i].ok THEN {"symbol", "ok"} ELSE {"symbol", "ok", "error"}
            /\ {calls[j][2] : j \in 1..Len(calls)} = {ret[i].symbol : i \in 1..Len(ret)}
            /\ \A j \in 1..Len(calls) :
                   IF calls[j][1] = "OVERVIEW"
                   THEN IF j = 1 THEN calls[j][2] = Roster[1]
                        ELSE /\ RosterIndex(calls[j][2]) = RosterIndex(calls[j - 1][2]) + 1
                             /\ (calls[j - 1][1] = "OVERVIEW" => ~calls[j - 1][3])
                   ELSE j > 1 /\ calls[j - 1] = <<"OVERVIEW", calls[j][2], TRUE>>

C10_PrimeCompletes ==
    /\ [][C10_Report]_vars
    /\ (last.op = "prime_start") ~> (last.op = "prime")

(* a run that stopped early: the report holds a success, a failure that    *)
(* did not stop the run, and the failure that stopped it                   *)
C10_Witness ==
    /\ last.op = "prime"
    /\ Len(last.ret) = 3
    /\ last.ret[1].ok
    /\ ~last.ret[2].ok
    /\ ~last.ret[3].ok


-----------------------------------------------------------------------------
(* Properties of GET /api/vendors *)

(* C8: a failure while fetching or deriving one symbol does not fail the   *)
(* batch: the response holds one item per non-empty ticker, in request     *)
(* order, the item of a failing symbol carrying an inline error and the    *)
(* item of every other symbol its record.                                  *)
C8_FailuresIsolated ==
    [][(last'.op = "vendors" /\ last'.tickers # <<>>) =>
        /\ last'.ok
        /\ Len(last'.vendors) = Len(last'.tickers)
        /\ \A i \in 1..Len(last'.tickers) :
               /\ last'.vendors[i].symbol = last'.tickers[i]
               /\ ("error" \in DOMAIN last'.vendors[i]) <=> (last'.outs[i] = "failed")
               /\ ("flags" \in DOMAIN last'.vendors[i]) <=> (last'.outs[i] = "derived")]_vars

-----------------------------------------------------------------------------
(* Properties of the cache key *)

(* C14, as claimed: two requests map to the same key exactly when they     *)
(* have the same function and the same symbol, whatever the order in which *)
(* their parameters were inserted.                                         *)
C14_AsClaimed ==
    last.op = "keys" =>
        (last.ka = last.kb <=> (last.a.f = last.b.f /\ last.a.s = last.b.s))

(* two symbols a program does not tell apart: main.py upper-cases the      *)
(* symbol, in the key as in the upstream request                           *)
SameSymbol(i, s1, s2) == s1 = s2 \/ (i = "main" /\ {s1, s2} = {"TEL", "tel"})

(* C14, amended: two requests map to the same key exactly when they have   *)
(* the same function and the same symbol, main.py comparing symbols        *)
(* without regard to letter case; the insertion order of the parameters    *)
(* plays no part.                                                          *)
C14_KeyDeterminism ==
    last.op = "keys" =>
        (last.ka = last.kb <=>
            (last.a.f = last.b.f /\ SameSymbol(impl, last.a.s, last.b.s)))

(* av_client built one key for a request whose parameters were inserted in *)
(* two different orders                                                    *)
C14_Witness ==
    /\ last.op = "keys"
    /\ impl = "av_client"
    /\ last.a.f = last.b.f /\ last.a.s = last.b.s
    /\ last.a.order # last.b.order
    /\ last.ka = last.kb
    /\ last.ka = <<"av:", "apikey", "demo", "function", last.a.f, "symbol", last.a.s>>

-----------------------------------------------------------------------------
(* Properties of the derivation *)

(* the reports of a payload, none when it lacks the field *)
ReportsIn(inc, key) == IF key \in DOMAIN inc.d THEN inc.d[key] ELSE <<>>

(* the revenue of a report as a number, None when missing or unparsable *)
RevenueOf(report) ==
    IF "totalRevenue" \in DOMAIN report THEN ParseInt(report.totalRevenue) ELSE None

(* C16: yoyRevenue is non-null exactly when there are two annual reports   *)
(* or more, the latest revenue is parsable and the prior revenue is        *)
(* parsable and non-zero, and then it is (latest - prior) / prior: a       *)
(* latest revenue of 0 gives -1.  In every deriver.                        *)
C16_YoyRevenue ==
    last.op = "derive" =>
        LET a == ReportsIn(last.inc, "annualReports") IN
        IF /\ Len(a) >= 2
           /\ ~IsNone(RevenueOf(a[1]))
           /\ ~IsNone(RevenueOf(a[2]))
           /\ Get(RevenueOf(a[2])) # 0
        THEN last.ret.yoyRevenue
                 = Some(<<Get(RevenueOf(a[1])) - Get(RevenueOf(a[2])), Get(RevenueOf(a[2]))>>)
        ELSE last.ret.yoyRevenue = None

(* C17: revenueTTM of api_compare is the sum of the totalRevenue values of *)
(* the four most recent quarterly reports when there are four or more, and *)
(* null when there are fewer; it is never a sum over fewer than four       *)
(* revenue values.                                                         *)
C17_TtmFromQuarters ==
    (last.op = "derive" /\ impl = "av_client") =>
        LET q == ReportsIn(last.inc, "quarterlyReports") IN
        IF Len(q) >= 4 /\ \A i \in 1..4 : ~IsNone(RevenueOf(q[i]))
        THEN last.ret.revenueTTM
                 = Some(Get(RevenueOf(q[1])) + Get(RevenueOf(q[2]))
                            + Get(RevenueOf(q[3])) + Get(RevenueOf(q[4])))
        ELSE last.ret.revenueTTM = None

(* membership in a list of flags *)
HasFlag(flags, name) == \E i \in 1..Len(flags) : flags[i] = name

(* C18: the revenue flag compares strictly: a revenue equal to the         *)
(* threshold is OK, a revenue one unit (here: one million) below it is     *)
(* LOW, a null revenue gives no flag; in derive_metrics the low-revenue    *)
(* flag depends on the revenue alone and the negative-growth flag on the   *)
(* growth alone.                                                           *)
C18_RevenueFlag ==
    last.op = "derive" =>
        IF impl = "av_client"
        THEN LET revenue == last.ret.revenue
                 flag == last.ret.revenueFlag
             IN  /\ revenue = None => flag = None
                 /\ revenue = Some(RevenueThreshold) => flag = Some("OK")
                 /\ revenue = Some(RevenueThreshold - 1) => flag = Some("LOW")
                 /\ revenue # None =>
                        flag = IF Get(revenue) < RevenueThreshold
                               THEN Some("LOW") ELSE Some("OK")
        ELSE LET revenue == last.ret.revenueTTM
                 yoy == last.ret.yoyRevenue
                 flags == last.ret.flags
             IN  /\ revenue = Some(LowRevenueThreshold) => ~HasFlag(flags, "LOW_REVENUE")
                 /\ revenue = Some(LowRevenueThreshold - 1) => HasFlag(flags, "LOW_REVENUE")
                 /\ HasFlag(flags, "LOW_REVENUE")
                        <=> (revenue # None /\ Get(revenue) < LowRevenueThreshold)
                 /\ HasFlag(flags, "NEG_YOY_REVENUE")
                        <=> (yoy # None /\ Get(yoy)[1] * Get(yoy)[2] < 0)
                 /\ \A i \in 1..Len(flags) : flags[i] \in {"LOW_REVENUE", "NEG_YOY_REVENUE"}

(* api_compare classified a latest annual revenue equal to the threshold   *)
(* as OK                                                                   *)
C18_Witness ==
    /\ last.op = "derive"
    /\ impl = "av_client"
    /\ last.ret.revenue = Some(RevenueThreshold)
    /\ last.ret.revenueFlag = Some("OK")

-----------------------------------------------------------------------------
(* Properties of concurrent fetches *)

AllDone == \A i \in Tasks : req[i].pc = "done"

(* a successful payload: the body of a status-200 response that is no      *)
(* soft error                                                              *)
IsSuccessful(resp) ==
    resp.kind = "http" /\ resp.status = 200 /\ ~IsSoftError(resp.body)

(* C19: concurrent fetches of one key may each issue an upstream request;  *)
(* once all have completed the table holds at most one row of the key,     *)
(* that row holds a successful payload one of them wrote, and every fetch  *)
(* that did not fail returned a successful payload.                        *)
C19_ConcurrentFetches ==
    (last.op # "init" /\ AllDone) =>
        /\ Cardinality(SelectRows(rows, ConcKey)) <= 1
        /\ \A r \in SelectRows(rows, ConcKey) :
               \E i \in Tasks :
                   /\ req[i].ok /\ req[i].net
                   /\ r.v = json_dumps(req[i].data)
                   /\ IsSuccessful(req[i].resp)
        /\ \A i \in Tasks :
               req[i].ok =>
                   /\ ~IsSoftError(req[i].data)
                   /\ req[i].net => IsSuccessful(req[i].resp)

(* C20: the DELETE of cache_get removes only rows that are stale when it   *)
(* runs, so a SELECT made within the TTL of the latest cache_set reads the *)
(* row of that cache_set.                                                  *)
C20_DeletesOnlyStale ==
    [][/\ last'.op = "delete" =>
              \A r \in rows \ rows' : IsStale(r, _ttl, now)
       /\ (/\ last'.op = "select"
           /\ HasHistory(ConcKey)
           /\ ~IsStale([ts |-> IntTime(History(ConcKey).at)], _ttl, now))
          => \E r \in SelectRows(rows, ConcKey) :
                 json_loads(r.v) = History(ConcKey).value]_vars

-----------------------------------------------------------------------------
(* Properties of a cache hit *)

(* the handler that took the step, when the step is the SELECT of its      *)
(* cache_get                                                               *)
Selects(i) == req[i].pc = "select" /\ req'[i].pc # "select"

(* the step is a fetch served from the cache: the row read was fresh and   *)
(* its payload truthy                                                      *)
ServedFromCache(i) == Selects(i) /\ req'[i].pc = "done"

(* C21 as stated: every payload a fetch returns from the cache was         *)
(* received from upstream at most TTL seconds before it is returned.       *)
C21_AsClaimed ==
    [][\A i \in Tasks :
          ServedFromCache(i) =>
              /\ HasHistory(ConcKey)
              /\ now - History(ConcKey).recv <= _ttl * TicksPerSec]_vars

(* C21: a cache_get that returns a payload leaves the whole table, every   *)
(* timestamp included, as it was; a fetch served from the cache returns    *)
(* that payload, issues no upstream request and calls no cache_set; and    *)
(* the payload it returns is the one a cache_set wrote at most TTL seconds *)
(* before the read (the timestamp is the clock of the cache_set in whole   *)
(* seconds, not the time at which the response was received).              *)
C21_HitReadOnly ==
    [][\A i \in Tasks :
          /\ (Selects(i) /\ ~IsNone(cache_get(rows, ConcKey, _ttl, now))) =>
                 /\ rows' = rows
                 /\ lastSet' = lastSet
                 /\ req'[i].pc \in {"done", "request"}
                 /\ req'[i].pc = "done" <=>
                        Truthy(Get(cache_get(rows, ConcKey, _ttl, now)))
          /\ ServedFromCache(i) =>
                 /\ req'[i].ok /\ ~req'[i].net
                 /\ req'[i].data = Get(cache_get(rows, ConcKey, _ttl, now))
                 /\ rows' = rows
                 /\ lastSet' = lastSet
                 /\ HasHistory(ConcKey)
                 /\ History(ConcKey).value = req'[i].data
                 /\ History(ConcKey).recv <= History(ConcKey).at
                 /\ now - History(ConcKey).at <= _ttl * TicksPerSec]_vars

(* a fetch was served from the cache at the last clock at which the entry  *)
(* is fresh, the response having been received before the second in which  *)
(* cache_set stored it, while the table holds the entry of another request *)
C21_Witness ==
    /\ last.op = "select"
    /\ req[last.task].pc = "done"
    /\ ~req[last.task].net
    /\ HasHistory(ConcKey)
    /\ now - IntTime(History(ConcKey).at) * TicksPerSec = _ttl * TicksPerSec
    /\ now - History(ConcKey).recv > _ttl * TicksPerSec
    /\ \E r \in rows : r.k = OtherKey

=============================================================================
